---- MODULE Spec2Model ----
(***************************************************************************)
(* A model of the object layer of codecrafters-rust-git: the object codec  *)
(* (GitObject::to_raw / from_bytes), the tree payload decoder              *)
(* (TreeLines::from_bytes), and the object store (FsUtils, GitObject       *)
(* write and read paths) with the tree builder (FsUtils::write_tree).      *)
(*                                                                         *)
(* Byte strings (Vec<u8>, &[u8]) are sequences of integers 0..255.  A Rust *)
(* String / &str is the sequence of its UTF-8 bytes, so that len() and     *)
(* slicing are byte-indexed as in Rust.                                     *)
(***************************************************************************)
EXTENDS Integers, Sequences, FiniteSets, TLC

VARIABLES
    object_dirs,    \* shard directories that exist under GIT_OBJECTS_DIR
    object_files,   \* <<shard, file name>> -> bytes of the file
    result,         \* what the last call was given and what it returned
    wpc,            \* concurrent writers: position in the write path
    wobj,           \* concurrent writers: the object being written
    wres            \* concurrent writers: outcome of the call

vars == <<object_dirs, object_files, result, wpc, wobj, wres>>

----------------------------------------------------------------------------
(* Bytes and text                                                          *)

SPACE == 32
NUL == 0

\* the concatenation of parts[lo], ..., parts[hi]
RECURSIVE ConcatRange(_, _, _)
ConcatRange(parts, lo, hi) ==
    IF lo > hi THEN <<>>
    ELSE IF lo = hi THEN parts[lo]
    ELSE LET mid == (lo + hi) \div 2
         IN ConcatRange(parts, lo, mid) \o ConcatRange(parts, mid + 1, hi)

Concat(parts) == ConcatRange(parts, 1, Len(parts))

\* the sum of terms[lo], ..., terms[hi]
RECURSIVE SumRange(_, _, _)
SumRange(terms, lo, hi) ==
    IF lo > hi THEN 0
    ELSE IF lo = hi THEN terms[lo]
    ELSE LET mid == (lo + hi) \div 2
         IN SumRange(terms, lo, mid) + SumRange(terms, mid + 1, hi)

\* iter().position(|&b| b == x): 1-based index of the first x, 0 when absent
Position(bytes, x) ==
    LET at == {i \in 1..Len(bytes) : bytes[i] = x}
    IN IF at = {} THEN 0 ELSE CHOOSE i \in at : \A j \in at : i <= j

\* the bytes after the first n
Drop(bytes, n) == SubSeq(bytes, n + 1, Len(bytes))

\* the first n bytes
Take(bytes, n) == SubSeq(bytes, 1, n)

\* str::starts_with
StartsWith(s, p) == Len(p) <= Len(s) /\ Take(s, Len(p)) = p

\* byte-wise lexicographic order (Ord for paths of one parent directory)
RECURSIVE LexLess(_, _)
LexLess(a, b) ==
    IF b = <<>> THEN FALSE
    ELSE IF a = <<>> THEN TRUE
    ELSE IF Head(a) # Head(b) THEN Head(a) < Head(b)
    ELSE LexLess(Tail(a), Tail(b))

\* format!("{}", n) for a usize: ASCII decimal digits
RECURSIVE ToDecimal(_)
ToDecimal(n) ==
    IF n < 10 THEN <<48 + n>> ELSE ToDecimal(n \div 10) \o <<48 + (n % 10)>>

HexDigit(n) == IF n < 10 THEN 48 + n ELSE 87 + n

\* hex::encode: two lower-case hex digits per byte
HexEncode(bytes) ==
    [k \in 1..(2 * Len(bytes)) |->
        IF k % 2 = 1 THEN HexDigit(bytes[(k + 1) \div 2] \div 16)
        ELSE HexDigit(bytes[k \div 2] % 16)]

\* value of one hex digit character (hex::decode, as in the retired to_bytes)
HexValue(c) == IF c >= 97 THEN c - 87 ELSE c - 48

HexDecode(hex) ==
    [k \in 1..(Len(hex) \div 2) |-> HexValue(hex[2 * k - 1]) * 16 + HexValue(hex[2 * k])]

(* UTF-8 *)

REPLACEMENT_CHARACTER == <<239, 191, 189>>

Utf8Cont == <<128, 191>>

\* the ranges the bytes after lead byte b must lie in
Utf8Tail(b) ==
    IF b < 128 THEN <<>>
    ELSE IF b \in 194..223 THEN <<Utf8Cont>>
    ELSE IF b = 224 THEN <<<<160, 191>>, Utf8Cont>>
    ELSE IF b = 237 THEN <<<<128, 159>>, Utf8Cont>>
    ELSE IF b \in 225..239 THEN <<Utf8Cont, Utf8Cont>>
    ELSE IF b = 240 THEN <<<<144, 191>>, Utf8Cont, Utf8Cont>>
    ELSE IF b = 244 THEN <<<<128, 143>>, Utf8Cont, Utf8Cont>>
    ELSE <<Utf8Cont, Utf8Cont, Utf8Cont>>

Utf8Lead(b) == b < 128 \/ b \in 194..244

\* how many of the bytes after position i continue the sequence started there
RECURSIVE Utf8Matched(_, _, _, _)
Utf8Matched(bytes, i, ranges, k) ==
    IF k > Len(ranges) \/ i + k > Len(bytes) THEN k - 1
    ELSE IF bytes[i + k] >= ranges[k][1] /\ bytes[i + k] <= ranges[k][2]
         THEN Utf8Matched(bytes, i, ranges, k + 1)
    ELSE k - 1

\* the bytes after the lead byte at i that its sequence takes in (all of a valid
\* sequence, or the valid start of a broken one)
Utf8Taken(bytes, i) ==
    IF Utf8Lead(bytes[i]) THEN Utf8Matched(bytes, i, Utf8Tail(bytes[i]), 1) ELSE 0

\* byte i is taken in by the sequence of a lead byte before it (a lead byte is
\* never a continuation byte, so each lead byte starts a sequence of its own)
Utf8Inside(bytes, i) ==
    \E k \in 1..3 : i - k >= 1 /\ Utf8Taken(bytes, i - k) >= k

\* String::from_utf8_lossy(..).to_string(): a valid sequence is kept, each
\* maximal invalid part becomes U+FFFD
from_utf8_lossy(bytes) ==
    Concat([i \in 1..Len(bytes) |->
        IF Utf8Inside(bytes, i) THEN <<>>
        ELSE IF Utf8Lead(bytes[i]) /\ Utf8Taken(bytes, i) = Len(Utf8Tail(bytes[i]))
             THEN SubSeq(bytes, i, i + Utf8Taken(bytes, i))
        ELSE REPLACEMENT_CHARACTER])

\* OsString::into_string succeeds
IsUtf8(bytes) == from_utf8_lossy(bytes) = bytes

\* str::is_char_boundary(n)
IsCharBoundary(s, n) ==
    n = 0 \/ n = Len(s) \/ (n < Len(s) /\ ~(s[n + 1] \in 128..191))

\* number of characters of a string given as UTF-8 bytes
CharCount(s) == Cardinality({i \in 1..Len(s) : ~(s[i] \in 128..191)})

----------------------------------------------------------------------------
(* Outcomes of a call: Ok(v), Err(e), or a panic                           *)

Ok(v) == [kind |-> "ok", value |-> v]
Err(e) == [kind |-> "err", error |-> e]
Panic == [kind |-> "panic"]

IsOk(r) == r.kind = "ok"

----------------------------------------------------------------------------
(* Hasher and compressor                                                   *)

HASH_BYTES_LENGTH == 20

\* One lane of the digest: the bytes at positions i, i + 20, i + 40, ... folded
RECURSIVE DigestLane(_, _, _)
DigestLane(bytes, i, acc) ==
    IF i > Len(bytes) THEN acc
    ELSE DigestLane(bytes, i + HASH_BYTES_LENGTH, (acc * 31 + bytes[i] + 1) % 256)

\* Sha1::new().update(..).finalize(): a deterministic 160-bit digest of the
\* bytes.  The digest function used here is a 20-lane fold; it is total,
\* deterministic and 20 bytes wide, and distinct objects of the model get
\* distinct digests, while digests may share a prefix as SHA-1 digests may.
Sha1Digest(bytes) ==
    [j \in 1..HASH_BYTES_LENGTH |-> DigestLane(bytes, j, (j * 37) % 256)]

\* hasher::create_hash
create_hash(bytes) == Sha1Digest(bytes)

\* the Adler-32 checksum, big-endian, that ends a zlib stream: a is 1 plus the
\* sum of the bytes, b the sum of the values a takes, both modulo 65521
Adler32(bytes) ==
    LET n == Len(bytes)
        a == (1 + SumRange(bytes, 1, n)) % 65521
        b == (n + SumRange([i \in 1..n |-> (n - i + 1) * bytes[i]], 1, n)) % 65521
    IN <<b \div 256, b % 256, a \div 256, a % 256>>

\* ZlibEncoder::write_all + finish: a zlib stream of the bytes (header 78 9C,
\* one final stored block with LEN and its complement, the Adler-32 trailer)
ZlibEncode(bytes) ==
    LET n == Len(bytes)
    IN <<120, 156, 1, n % 256, n \div 256, 255 - (n % 256), 255 - (n \div 256)>>
           \o bytes \o Adler32(bytes)

\* ZlibDecoder::read_to_end: the bytes of a well-framed stream, else an error
ZlibDecode(stream) ==
    IF Len(stream) < 11 THEN Err("corrupt deflate stream")
    ELSE LET n == stream[4] + 256 * stream[5]
             body == SubSeq(stream, 8, Len(stream) - 4)
         IN IF /\ Take(stream, 3) = <<120, 156, 1>>
               /\ stream[6] = 255 - stream[4]
               /\ stream[7] = 255 - stream[5]
               /\ Len(body) = n
               /\ Drop(stream, Len(stream) - 4) = Adler32(body)
            THEN Ok(body)
            ELSE Err("corrupt deflate stream")

\* compressor::Compressor::compress
Compressor_compress(bytes) == ZlibEncode(bytes)

----------------------------------------------------------------------------
(* GitObject and its codec                                                 *)

GIT_OBJECT_TYPE_BLOB == <<98, 108, 111, 98>>       \* "blob"
GIT_OBJECT_TYPE_TREE == <<116, 114, 101, 101>>     \* "tree"

Blob(content_string) == [variant |-> "Blob", content |-> content_string]
Tree(content_string) == [variant |-> "Tree", content |-> content_string]

object_type(self) ==
    IF self.variant = "Blob" THEN GIT_OBJECT_TYPE_BLOB ELSE GIT_OBJECT_TYPE_TREE

\* GitObject::new
GitObject_new(type, content_string) ==
    IF type = GIT_OBJECT_TYPE_BLOB THEN Ok(Blob(content_string))
    ELSE IF type = GIT_OBJECT_TYPE_TREE THEN Ok(Tree(content_string))
    ELSE Err("Invalid object type")

\* format!("{object_type} {}\0", len)
ObjectHeader(type, len) == type \o <<SPACE>> \o ToDecimal(len) \o <<NUL>>

\* to_raw with the header's length counted in characters instead of bytes
to_raw_counting_chars(self) ==
    LET header == ObjectHeader(object_type(self), CharCount(self.content))
        content == header \o self.content
    IN [hash |-> HexEncode(Sha1Digest(content)), data |-> ZlibEncode(content)]

\* GitObject::to_raw: (hex hash, compressed bytes)
to_raw(self) ==
    LET header == ObjectHeader(object_type(self), Len(self.content))
        content == header \o self.content
    IN [hash |-> HexEncode(Sha1Digest(content)), data |-> ZlibEncode(content)]

\* GitObject::from_bytes
from_bytes(bytes) ==
    LET decoded == ZlibDecode(bytes)
    IN IF ~IsOk(decoded) THEN decoded
       ELSE LET content_string == from_utf8_lossy(decoded.value)
                sp == Position(content_string, SPACE)
            IN IF sp = 0 THEN Err("Failed to read object type")
               ELSE LET type == Take(content_string, sp - 1)
                        rest == Drop(content_string, sp)
                        nl == Position(rest, NUL)
                    IN IF nl = 0 THEN Err("Failed to read object length")
                       ELSE GitObject_new(type, Drop(rest, nl))

----------------------------------------------------------------------------
(* Tree payloads                                                           *)

TREE_LINE_MODE_FILE == <<49, 48, 48, 54, 52, 52>>   \* "100644"
TREE_LINE_MODE_FOLDER == <<52, 48, 48, 48, 48>>     \* "40000"

TreeLine_new(mode, path, hash) == [mode |-> mode, path |-> path, hash |-> hash]

\* the loop of TreeLines::from_bytes with the NUL left in front of the hash
\* (the remaining bytes cut at null_index instead of null_index + 1)
RECURSIVE TreeLinesLoop_keeping_nul(_, _)
TreeLinesLoop_keeping_nul(loop_remaining_bytes, lines) ==
    LET space_index == Position(loop_remaining_bytes, SPACE)
    IN IF space_index = 0 THEN Err("Invalid tree line")
       ELSE LET mode == Take(loop_remaining_bytes, space_index - 1)
                after_mode == Drop(loop_remaining_bytes, space_index)
                null_index == Position(after_mode, NUL)
            IN IF null_index = 0 THEN Err("Invalid tree line")
               ELSE LET path == Take(after_mode, null_index - 1)
                        after_path == Drop(after_mode, null_index - 1)
                    IN IF Len(after_path) < HASH_BYTES_LENGTH THEN Panic
                       ELSE LET hash == Take(after_path, HASH_BYTES_LENGTH)
                                after_hash == Drop(after_path, HASH_BYTES_LENGTH)
                                line == TreeLine_new(from_utf8_lossy(mode),
                                                     from_utf8_lossy(path),
                                                     HexEncode(hash))
                            IN IF Len(after_hash) = 0 THEN Ok(Append(lines, line))
                               ELSE TreeLinesLoop_keeping_nul(after_hash, Append(lines, line))

\* the loop of TreeLines::from_bytes
RECURSIVE TreeLinesLoop(_, _)
TreeLinesLoop(loop_remaining_bytes, lines) ==
    LET space_index == Position(loop_remaining_bytes, SPACE)
    IN IF space_index = 0 THEN Err("Invalid tree line")
       ELSE LET mode == Take(loop_remaining_bytes, space_index - 1)
                after_mode == Drop(loop_remaining_bytes, space_index)
                null_index == Position(after_mode, NUL)
            IN IF null_index = 0 THEN Err("Invalid tree line")
               ELSE LET path == Take(after_mode, null_index - 1)
                        after_path == Drop(after_mode, null_index)
                    IN \* &loop_remaining_bytes[..HASH_BYTES_LENGTH] is bounds-checked
                       IF Len(after_path) < HASH_BYTES_LENGTH THEN Panic
                       ELSE LET hash == Take(after_path, HASH_BYTES_LENGTH)
                                after_hash == Drop(after_path, HASH_BYTES_LENGTH)
                                line == TreeLine_new(from_utf8_lossy(mode),
                                                     from_utf8_lossy(path),
                                                     HexEncode(hash))
                            IN IF Len(after_hash) = 0 THEN Ok(Append(lines, line))
                               ELSE TreeLinesLoop(after_hash, Append(lines, line))

\* TreeLines::from_bytes
TreeLines_from_bytes(bytes) == TreeLinesLoop(bytes, <<>>)

\* one entry as write_tree lays it out: "<mode> <name>\0" and the 20 raw hash bytes
TreeEntryBytes(mode, name, hash) == mode \o <<SPACE>> \o name \o <<NUL>> \o hash

----------------------------------------------------------------------------
(* The file system under GIT_OBJECTS_DIR: fs = [dirs, files]               *)

ShardOf(hash_hex) == Take(hash_hex, 2)       \* &hash[..2]
FileOf(hash_hex) == Drop(hash_hex, 2)        \* &hash[2..]

\* fs::metadata(dir_path).is_ok()
fs_metadata_is_ok(fs, shard) == shard \in fs.dirs

\* fs::create_dir: fails when the directory is there already
fs_create_dir(fs, shard) ==
    IF shard \in fs.dirs THEN [out |-> Err("AlreadyExists"), fs |-> fs]
    ELSE [out |-> Ok(shard), fs |-> [fs EXCEPT !.dirs = @ \cup {shard}]]

\* fs::write gone wrong: the shard directory is left with the new file only
fs_write_emptying_shard(fs, shard, name, bytes) ==
    IF shard \notin fs.dirs THEN [out |-> Err("NotFound"), fs |-> fs]
    ELSE [out |-> Ok(name),
          fs |-> [fs EXCEPT !.files =
                     [p \in {q \in DOMAIN @ : q[1] # shard} \cup {<<shard, name>>} |->
                         IF p = <<shard, name>> THEN bytes ELSE @[p]]]]

\* fs::write: creates the file or replaces its bytes; the directory must exist
fs_write(fs, shard, name, bytes) ==
    IF shard \notin fs.dirs THEN [out |-> Err("NotFound"), fs |-> fs]
    ELSE [out |-> Ok(name),
          fs |-> [fs EXCEPT !.files =
                     [p \in DOMAIN @ \cup {<<shard, name>>} |->
                         IF p = <<shard, name>> THEN bytes ELSE @[p]]]]

\* GitObject::write_to_fs
GitObject_write_to_fs(self, fs) ==
    LET raw == to_raw(self)
        made == fs_create_dir(fs, ShardOf(raw.hash))
    IN IF ~IsOk(made.out) THEN made
       ELSE LET written == fs_write(made.fs, ShardOf(raw.hash), FileOf(raw.hash), raw.data)
            IN IF ~IsOk(written.out) THEN written
               ELSE [out |-> Ok(raw.hash), fs |-> written.fs]

\* the shard directory is created when fs::metadata does not find it
EnsureShard(fs, shard) ==
    IF ~fs_metadata_is_ok(fs, shard) THEN fs_create_dir(fs, shard)
    ELSE [out |-> Ok(shard), fs |-> fs]

\* FsUtils::write_to_fs
FsUtils_write_to_fs(git_object, fs) ==
    LET raw == to_raw(git_object)
        made == EnsureShard(fs, ShardOf(raw.hash))
    IN IF ~IsOk(made.out) THEN made
       ELSE LET written == fs_write(made.fs, ShardOf(raw.hash), FileOf(raw.hash), raw.data)
            IN IF ~IsOk(written.out) THEN written
               ELSE [out |-> Ok(raw.hash), fs |-> written.fs]

\* the bytes FsUtils::write_object hashes
ObjectBytes(type, content_bytes) ==
    ObjectHeader(type, Len(content_bytes)) \o content_bytes

\* FsUtils::write_object: returns the raw 20-byte hash
write_object(type, content_bytes, fs) ==
    LET object_bytes == ObjectBytes(type, content_bytes)
        hash == create_hash(object_bytes)
        hash_hex == HexEncode(hash)
        compressed_object_bytes == Compressor_compress(object_bytes)
        made == EnsureShard(fs, ShardOf(hash_hex))
    IN IF ~IsOk(made.out) THEN made
       ELSE LET written == fs_write(made.fs, ShardOf(hash_hex), FileOf(hash_hex),
                                    compressed_object_bytes)
            IN IF ~IsOk(written.out) THEN written
               ELSE [out |-> Ok(hash), fs |-> written.fs]

----------------------------------------------------------------------------
(* The tree builder.  A working directory is a node:                       *)
(*   [kind |-> "file", readable, bytes]  or                                *)
(*   [kind |-> "dir", readable, children]  (children: name -> node)        *)

GIT_BASE_DIR == <<46, 103, 105, 116>>     \* ".git"

File(bytes) == [kind |-> "file", readable |-> TRUE, bytes |-> bytes]
UnreadableFile == [kind |-> "file", readable |-> FALSE, bytes |-> <<>>]
Dir(children) == [kind |-> "dir", readable |-> TRUE, children |-> children]
UnreadableDir == [kind |-> "dir", readable |-> FALSE, children |-> <<>>]

\* entries.sort_by_key(|e| e.path()): the names of one directory, ascending
RECURSIVE SortedNames(_)
SortedNames(names) ==
    IF names = {} THEN <<>>
    ELSE LET least == CHOOSE n \in names : \A m \in names \ {n} : LexLess(n, m)
         IN <<least>> \o SortedNames(names \ {least})

RECURSIVE write_tree(_, _)
RECURSIVE WriteTreeEntries(_, _, _, _)

\* the for loop of FsUtils::write_tree over the sorted entries
WriteTreeEntries(node, entries, tree_bytes, fs) ==
    IF entries = <<>> THEN [out |-> Ok(tree_bytes), fs |-> fs]
    ELSE LET file_name == Head(entries)
             entry == node.children[file_name]
         IN IF file_name = GIT_BASE_DIR \/ ~IsUtf8(file_name)
            THEN WriteTreeEntries(node, Tail(entries), tree_bytes, fs)
            ELSE IF entry.kind = "dir"
            THEN LET header == TREE_LINE_MODE_FOLDER \o <<SPACE>> \o file_name \o <<NUL>>
                     sub == write_tree(entry, fs)
                 IN IF ~IsOk(sub.out) THEN sub
                    ELSE WriteTreeEntries(node, Tail(entries),
                                          tree_bytes \o header \o sub.out.value, sub.fs)
            ELSE LET header == TREE_LINE_MODE_FILE \o <<SPACE>> \o file_name \o <<NUL>>
                 IN IF ~entry.readable THEN [out |-> Err("PermissionDenied"), fs |-> fs]
                    ELSE LET blob == write_object(GIT_OBJECT_TYPE_BLOB, entry.bytes, fs)
                         IN IF ~IsOk(blob.out) THEN blob
                            ELSE WriteTreeEntries(node, Tail(entries),
                                                  tree_bytes \o header \o blob.out.value,
                                                  blob.fs)

\* FsUtils::write_tree: returns the raw hash of the tree object of the directory
write_tree(node, fs) ==
    IF ~node.readable THEN [out |-> Err("PermissionDenied"), fs |-> fs]
    ELSE LET walked == WriteTreeEntries(node, SortedNames(DOMAIN node.children), <<>>, fs)
         IN IF ~IsOk(walked.out) THEN walked
            ELSE write_object(GIT_OBJECT_TYPE_TREE, walked.out.value, walked.fs)

----------------------------------------------------------------------------
(* Lookup by hash prefix                                                   *)

\* the directory entries dir_iterator.find can stop at: the files of the shard
\* whose name starts with &hash[2..]
MatchingEntries(fs, hash) ==
    {p \in DOMAIN fs.files : p[1] = ShardOf(hash) /\ StartsWith(p[2], FileOf(hash))}

\* read_bytes_for_hash with the length check off by one (hash.len() < 5)
read_bytes_for_hash_off_by_one(hash, fs) ==
    IF Len(hash) < 5 THEN {[out |-> Err("Invalid hash"), listed |-> FALSE]}
    ELSE IF ~IsCharBoundary(hash, 2) THEN {[out |-> Panic, listed |-> FALSE]}
    ELSE IF ShardOf(hash) \notin fs.dirs THEN {[out |-> Err("NotFound"), listed |-> TRUE]}
    ELSE IF MatchingEntries(fs, hash) = {}
         THEN {[out |-> Err("Invalid hash"), listed |-> TRUE]}
    ELSE {[out |-> Ok(fs.files[p]), listed |-> TRUE] : p \in MatchingEntries(fs, hash)}

\* FsUtils::read_bytes_for_hash: the outcomes the call can have (read_dir yields
\* the entries in no fixed order, and find stops at the first that matches);
\* listed tells whether fs::read_dir was called
read_bytes_for_hash(hash, fs) ==
    IF Len(hash) < 6 THEN {[out |-> Err("Invalid hash"), listed |-> FALSE]}
    ELSE IF ~IsCharBoundary(hash, 2) THEN {[out |-> Panic, listed |-> FALSE]}
    ELSE IF ShardOf(hash) \notin fs.dirs THEN {[out |-> Err("NotFound"), listed |-> TRUE]}
    ELSE IF MatchingEntries(fs, hash) = {}
         THEN {[out |-> Err("Invalid hash"), listed |-> TRUE]}
    ELSE {[out |-> Ok(fs.files[p]), listed |-> TRUE] : p \in MatchingEntries(fs, hash)}

\* GitObject::from_hash (with from_path)
from_hash(hash, fs) ==
    IF Len(hash) < 6 THEN {[out |-> Err("Invalid tree hash"), listed |-> FALSE]}
    ELSE IF ~IsCharBoundary(hash, 2) THEN {[out |-> Panic, listed |-> FALSE]}
    ELSE IF ShardOf(hash) \notin fs.dirs THEN {[out |-> Err("NotFound"), listed |-> TRUE]}
    ELSE IF MatchingEntries(fs, hash) = {}
         THEN {[out |-> Err("Invalid tree hash"), listed |-> TRUE]}
    ELSE {[out |-> from_bytes(fs.files[p]), listed |-> TRUE] : p \in MatchingEntries(fs, hash)}

----------------------------------------------------------------------------
(* Inputs of the calls                                                     *)

X == <<120>>                        \* "x"
Y == <<121>>                        \* "y"
TEXT == <<97, 32, 0, 195, 169>>     \* "a \0é": a space, a NUL, a two-byte character
BINARY == <<255, 0, 32>>            \* not valid UTF-8

\* objects a caller builds with GitObject::new (their content is a String)
GitObjects == {Blob(X), Tree(TEXT)}

\* file contents handed to write_object as blobs
FileContents == {X, BINARY}

NameA == <<97>>
NameB == <<98>>
NameC == <<99>>
NameD == <<100>>
NameRaw == <<255>>                  \* a file name that is not valid UTF-8

\* working directories handed to write_tree
WorkDirs ==
    { Dir(<<>>),
      Dir((NameA :> File(X)) @@ (NameD :> Dir(<<>>))),
      Dir((NameB :> File(X)) @@ (NameA :> Dir((NameC :> File(BINARY))))
            @@ (GIT_BASE_DIR :> Dir((NameA :> File(Y)))) @@ (NameRaw :> File(Y))),
      Dir((NameA :> File(X)) @@ (NameB :> UnreadableFile)),
      Dir((NameA :> Dir((NameC :> File(Y)))) @@ (NameB :> UnreadableDir)) }

\* lengths of the hash prefixes handed to the read calls
PrefixLengths == {5, 6, 40}

E_ACUTE == <<195, 169>>             \* "é"

\* hash arguments that are not hexadecimal
OddHashes ==
    { <<97>> \o E_ACUTE \o E_ACUTE \o E_ACUTE \o E_ACUTE,    \* 5 characters, 9 bytes
      E_ACUTE \o E_ACUTE \o E_ACUTE \o E_ACUTE \o E_ACUTE,   \* 5 characters, 10 bytes
      E_ACUTE \o <<97, 98>> }                                \* 3 characters, 4 bytes

\* a hash no object of the model has
AbsentHash == [j \in 1..40 |-> 48]

FS == [dirs |-> object_dirs, files |-> object_files]

StoredHashes == {p[1] \o p[2] : p \in DOMAIN object_files}

\* the hash arguments tried in the current state: prefixes of the stored hashes
\* and of an absent one, the shard of a stored hash followed by digits no stored
\* name starts with, and the arguments that are not hexadecimal
HashArguments ==
    {Take(h, n) : h \in StoredHashes \cup {AbsentHash}, n \in PrefixLengths}
        \cup {ShardOf(h) \o Take(AbsentHash, 4) : h \in StoredHashes}
        \cup OddHashes

----------------------------------------------------------------------------
(* The store as a state machine: one call per step                         *)

NoWriters == wpc = <<>> /\ wobj = <<>> /\ wres = <<>>

Init ==
    /\ object_dirs = {}
    /\ object_files = <<>>
    /\ result = [op |-> "none"]
    /\ NoWriters

\* a write call on one object: what was written, the outcome, the hash in hex
WriteResult(op, type, payload, out, hash_hex) ==
    [op |-> op, type |-> type, payload |-> payload, out |-> out,
     hash_hex |-> hash_hex]

Commit(fs) ==
    /\ object_dirs' = fs.dirs
    /\ object_files' = fs.files

GitObjectWriteToFs ==
    \E obj \in GitObjects :
        LET call == GitObject_write_to_fs(obj, FS)
            hex == IF IsOk(call.out) THEN call.out.value ELSE <<>>
        IN /\ Commit(call.fs)
           /\ result' = WriteResult("GitObject::write_to_fs", object_type(obj),
                                    obj.content, call.out, hex)
           /\ UNCHANGED <<wpc, wobj, wres>>

FsUtilsWriteToFs ==
    \E obj \in GitObjects :
        LET call == FsUtils_write_to_fs(obj, FS)
            hex == IF IsOk(call.out) THEN call.out.value ELSE <<>>
        IN /\ Commit(call.fs)
           /\ result' = WriteResult("FsUtils::write_to_fs", object_type(obj),
                                    obj.content, call.out, hex)
           /\ UNCHANGED <<wpc, wobj, wres>>

WriteObject ==
    \E content_bytes \in FileContents :
        LET call == write_object(GIT_OBJECT_TYPE_BLOB, content_bytes, FS)
            hex == IF IsOk(call.out) THEN HexEncode(call.out.value) ELSE <<>>
        IN /\ Commit(call.fs)
           /\ result' = WriteResult("FsUtils::write_object", GIT_OBJECT_TYPE_BLOB,
                                    content_bytes, call.out, hex)
           /\ UNCHANGED <<wpc, wobj, wres>>

WriteTree ==
    \E dir \in WorkDirs :
        LET call == write_tree(dir, FS)
        IN /\ Commit(call.fs)
           /\ result' = [op |-> "FsUtils::write_tree", dir |-> dir, out |-> call.out]
           /\ UNCHANGED <<wpc, wobj, wres>>

ReadBytesForHash ==
    \E hash \in HashArguments :
        \E call \in read_bytes_for_hash(hash, FS) :
            /\ result' = [op |-> "FsUtils::read_bytes_for_hash", hash |-> hash,
                          out |-> call.out, listed |-> call.listed]
            /\ UNCHANGED <<object_dirs, object_files, wpc, wobj, wres>>

FromHash ==
    \E hash \in HashArguments :
        \E call \in from_hash(hash, FS) :
            /\ result' = [op |-> "GitObject::from_hash", hash |-> hash,
                          out |-> call.out, listed |-> call.listed]
            /\ UNCHANGED <<object_dirs, object_files, wpc, wobj, wres>>

Next ==
    \/ GitObjectWriteToFs
    \/ FsUtilsWriteToFs
    \/ WriteObject
    \/ WriteTree
    \/ ReadBytesForHash
    \/ FromHash

Spec == Init /\ [][Next]_vars

----------------------------------------------------------------------------
(* Properties of the store                                                 *)

EmptyFs == [dirs |-> {}, files |-> <<>>]

WriteOps == {"GitObject::write_to_fs", "FsUtils::write_to_fs", "FsUtils::write_object"}

ObjectTypes == {GIT_OBJECT_TYPE_BLOB, GIT_OBJECT_TYPE_TREE}

\* the directories of a working directory that write_tree walks into
RECURSIVE Levels(_)
Levels(node) ==
    {node} \cup UNION {Levels(node.children[n]) :
                          n \in {m \in DOMAIN node.children :
                                    /\ m # GIT_BASE_DIR
                                    /\ node.children[m].kind = "dir"
                                    /\ node.children[m].readable}}

\* the tree payloads write_tree builds for the directories it can finish
TreePayloads ==
    LET walks == {WriteTreeEntries(d, SortedNames(DOMAIN d.children), <<>>, EmptyFs) :
                     d \in UNION {Levels(w) : w \in WorkDirs}}
    IN {w.out.value : w \in {v \in walks : IsOk(v.out)}}

\* every (type, payload) the calls of the model encode, with the hex hash of its encoding
Encoded ==
    {[type |-> e[1], payload |-> e[2], hash |-> HexEncode(Sha1Digest(ObjectBytes(e[1], e[2])))] :
        e \in {<<object_type(o), o.content>> : o \in GitObjects}
              \cup {<<GIT_OBJECT_TYPE_BLOB, c>> : c \in FileContents \cup {Y}}
              \cup {<<GIT_OBJECT_TYPE_TREE, t>> : t \in TreePayloads}}

\* C1: for every type tag t and payload p (also one with bytes that are not valid
\* UTF-8), decoding the compressed bytes that encoding (t, p) produced yields an
\* object of type t with payload exactly p: an object stored by encoding (t, p)
\* and read back by its full hash is (t, p).
C1_RoundTrip ==
    result.op = "GitObject::from_hash" =>
        \A e \in Encoded :
            (result.hash = e.hash /\ e.hash \in StoredHashes) =>
                result.out = GitObject_new(e.type, e.payload)

\* C2: writing the same content twice, through any write operation of the store,
\* returns the same hash both times and the second write does not fail.
C2_SecondWriteSucceeds ==
    [][(/\ result.op \in WriteOps
        /\ IsOk(result.out)
        /\ result'.op \in WriteOps
        /\ result'.type = result.type
        /\ result'.payload = result.payload)
            => (IsOk(result'.out) /\ result'.hash_hex = result.hash_hex)]_vars

\* the bytes are "<type> <decimal byte length of payload>" NUL payload
WellFramed(bytes) ==
    LET sp == Position(bytes, SPACE)
        nl == Position(bytes, NUL)
    IN /\ sp > 0
       /\ nl > sp
       /\ Take(bytes, sp - 1) \in ObjectTypes
       /\ SubSeq(bytes, sp + 1, nl - 1) = ToDecimal(Len(bytes) - nl)

\* C3: after any sequence of write operations every file of the store sits at the
\* location derived from its own content: shard name (2 hex characters) followed
\* by file name is the hex of the 160-bit hash of the file's decompressed bytes,
\* and those bytes are "<type> <decimal byte length of payload>" NUL payload.
C3_StoredAtOwnHash ==
    \A p \in DOMAIN object_files :
        LET bytes == ZlibDecode(object_files[p])
        IN /\ IsOk(bytes)
           /\ Len(p[1]) = 2
           /\ Len(p[2]) = 2 * HASH_BYTES_LENGTH - 2
           /\ p[1] \in object_dirs
           /\ p[1] \o p[2] = HexEncode(Sha1Digest(bytes.value))
           /\ WellFramed(bytes.value)

\* objects of both types, written by the single-object calls and by write_tree, one
\* of them with a payload whose length takes two decimal digits
C3_Witness ==
    /\ result.op = "FsUtils::write_tree"
    /\ IsOk(result.out)
    /\ Cardinality(DOMAIN object_files) >= 5
    /\ \E p \in DOMAIN object_files : Len(object_files[p]) > 40
    /\ \E e \in Encoded : e.payload = TEXT /\ e.hash \in StoredHashes

IsHex(s) == \A i \in 1..Len(s) : s[i] \in (48..57) \cup (97..102)

\* the files of the shard named by the first 2 characters whose name starts with
\* the remaining characters
Matches(hash) ==
    {p \in DOMAIN object_files : p[1] = Take(hash, 2) /\ StartsWith(p[2], Drop(hash, 2))}

\* C4: read_bytes_for_hash with a prefix of at least 6 hex characters returns the
\* bytes of a stored file only when exactly one file of the shard has a name that
\* starts with the rest of the prefix; with no match, or more than one, it fails.
C4_UniqueMatchOnly ==
    (/\ result.op = "FsUtils::read_bytes_for_hash"
     /\ Len(result.hash) >= 6
     /\ IsHex(result.hash))
        => /\ IsOk(result.out) =>
                /\ Cardinality(Matches(result.hash)) = 1
                /\ \A p \in Matches(result.hash) : result.out.value = object_files[p]
           /\ Cardinality(Matches(result.hash)) # 1 => result.out.kind = "err"

PayloadOf(bytes) == Drop(bytes, Position(bytes, NUL))

\* the hex hash of the tree object write_tree stores for directory d
TreeHashOf(d) == HexEncode(write_tree(d, EmptyFs).out.value)

\* the hex hash of the blob stored for a file
BlobHashOf(bytes) == HexEncode(Sha1Digest(ObjectBytes(GIT_OBJECT_TYPE_BLOB, bytes)))

\* one entry per child of d other than the metadata directory, ascending by path
ExpectedLines(d) ==
    LET names == SortedNames(DOMAIN d.children \ {GIT_BASE_DIR})
    IN [i \in 1..Len(names) |->
          LET child == d.children[names[i]]
          IN IF child.kind = "dir"
             THEN TreeLine_new(TREE_LINE_MODE_FOLDER, names[i], TreeHashOf(child))
             ELSE TreeLine_new(TREE_LINE_MODE_FILE, names[i], BlobHashOf(child.bytes))]

\* C7: each tree object write_tree stores (one per directory level, the one of an
\* empty directory included) has a payload that the tree payload decoder turns
\* without error into exactly one entry per child other than the metadata
\* directory, ascending by path: a file-mode entry with the hash of the stored
\* blob for a file, a folder-mode entry with the hash of the stored tree for a
\* subdirectory.
C7_TreeDecodesToChildren ==
    (result.op = "FsUtils::write_tree" /\ IsOk(result.out)) =>
        \A d \in Levels(result.dir) :
            LET p == <<ShardOf(TreeHashOf(d)), FileOf(TreeHashOf(d))>>
            IN /\ p \in DOMAIN object_files
               /\ LET lines == TreeLines_from_bytes(
                                   PayloadOf(ZlibDecode(object_files[p]).value))
                  IN /\ IsOk(lines)
                     /\ lines.value = ExpectedLines(d)
                     /\ \A i \in 1..Len(lines.value) :
                            lines.value[i].hash \in StoredHashes

\* C9: no operation removes or changes a stored object: after any call, also one
\* that fails part-way, every object stored before is still in the store under
\* the same hash with the same decompressed content.
C9_StoredObjectsStay ==
    [][\A p \in DOMAIN object_files :
          /\ p \in DOMAIN object_files'
          /\ \/ object_files'[p] = object_files[p]
             \/ ZlibDecode(object_files'[p]) = ZlibDecode(object_files[p])]_vars

\* a write_tree that failed part-way, in a store that holds the objects of earlier
\* calls and the objects the failed call had stored before it failed
C9_Witness ==
    /\ result.op = "FsUtils::write_tree"
    /\ ~IsOk(result.out)
    /\ BlobHashOf(Y) \in StoredHashes
    /\ BlobHashOf(BINARY) \in StoredHashes
    /\ Cardinality(DOMAIN object_files) >= 4

----------------------------------------------------------------------------
(* The tree payload decoder on its own: a payload is drawn, then decoded   *)

MaxEntries == 2     \* entries in a drawn payload
MaxCut == 21        \* bytes cut off the end of a drawn payload

NameSpaced == <<97, 32, 98>>        \* "a b"

\* 20 raw hash bytes that are spaces and NULs
BlankHash == [j \in 1..HASH_BYTES_LENGTH |-> IF j % 2 = 1 THEN SPACE ELSE NUL]

TreeEntries ==
    [mode : {TREE_LINE_MODE_FILE, TREE_LINE_MODE_FOLDER},
     name : {NameA, NameSpaced, E_ACUTE},
     hash : {Sha1Digest(X), BlankHash}]

\* the payload of the entries, laid out as write_tree lays them out
TreePayloadOf(entries) ==
    Concat([i \in 1..Len(entries) |->
               TreeEntryBytes(entries[i].mode, entries[i].name, entries[i].hash)])

InitCodec ==
    /\ object_dirs = {}
    /\ object_files = <<>>
    /\ NoWriters
    /\ \E n \in 0..MaxEntries :
         \E entries \in [1..n -> TreeEntries] :
           \E cut \in 0..MaxCut :
              /\ cut <= Len(TreePayloadOf(entries))
              /\ result = [op |-> "payload", entries |-> entries, cut |-> cut]

DecodeTree ==
    /\ result.op = "payload"
    /\ LET full == TreePayloadOf(result.entries)
           bytes == Take(full, Len(full) - result.cut)
       IN result' = [op |-> "TreeLines::from_bytes", entries |-> result.entries,
                     cut |-> result.cut, bytes |-> bytes,
                     out |-> TreeLines_from_bytes(bytes)]
    /\ UNCHANGED <<object_dirs, object_files, wpc, wobj, wres>>

NextCodec == DecodeTree

SpecCodec == InitCodec /\ [][NextCodec]_vars

\* C6: decoding a tree payload in which fewer than 20 bytes remain after the NUL
\* that ends an entry's name returns the InvalidTreeLine error; the decoder never
\* panics.
C6_TruncatedIsInvalidTreeLine ==
    (/\ result.op = "TreeLines::from_bytes"
     /\ Len(result.entries) >= 1
     /\ result.cut \in 1..HASH_BYTES_LENGTH)
        => result.out = Err("Invalid tree line")

\* C10: decoding the concatenation of n >= 1 well-formed entries returns exactly n
\* entries in the same order, each with the mode and name that were encoded and
\* with the hash equal to the hex encoding of its 20 bytes, also when those bytes
\* contain space or NUL bytes.
C10_DecodesEveryEntry ==
    (/\ result.op = "TreeLines::from_bytes"
     /\ Len(result.entries) >= 1
     /\ result.cut = 0)
        => /\ IsOk(result.out)
           /\ Len(result.out.value) = Len(result.entries)
           /\ \A i \in 1..Len(result.entries) :
                 /\ result.out.value[i].mode = result.entries[i].mode
                 /\ result.out.value[i].path = result.entries[i].name
                 /\ Len(result.out.value[i].hash) = 2 * HASH_BYTES_LENGTH
                 /\ IsHex(result.out.value[i].hash)
                 /\ HexDecode(result.out.value[i].hash) = result.entries[i].hash

\* two entries were decoded, the first with a hash of spaces and NULs
C10_Witness ==
    /\ result.op = "TreeLines::from_bytes"
    /\ result.cut = 0
    /\ Len(result.entries) = 2
    /\ result.entries[1].hash = BlankHash
    /\ result.entries[2].name = NameSpaced
    /\ IsOk(result.out)
    /\ Len(result.out.value) = 2

----------------------------------------------------------------------------
(* Two callers in the write path at once.  The steps of a writer are the   *)
(* file system calls of FsUtils::write_to_fs and FsUtils::write_object:    *)
(* fs::metadata, fs::create_dir when the shard was not found, fs::write.   *)

Writers == {1, 2}

\* the calls a writer can be making
WriterCalls ==
    {[op |-> "FsUtils::write_to_fs", type |-> object_type(o), payload |-> o.content] :
        o \in GitObjects}
    \cup {[op |-> "FsUtils::write_object", type |-> GIT_OBJECT_TYPE_BLOB, payload |-> c] :
             c \in FileContents}

\* hex hash and compressed bytes of the object of a call (to_raw, and the first
\* lines of write_object, lay the object out alike)
WriterHash(call) == HexEncode(Sha1Digest(ObjectBytes(call.type, call.payload)))
WriterData(call) == ZlibEncode(ObjectBytes(call.type, call.payload))

InitConc ==
    /\ object_dirs = {}
    /\ object_files = <<>>
    /\ result = [op |-> "none"]
    /\ wobj \in [Writers -> WriterCalls]
    /\ wpc = [w \in Writers |-> "metadata"]
    /\ wres = [w \in Writers |-> [kind |-> "running"]]

\* if !fs::metadata(&dir_path).is_ok()
WriterMetadata(w) ==
    /\ wpc[w] = "metadata"
    /\ wpc' = [wpc EXCEPT ![w] =
                  IF fs_metadata_is_ok(FS, ShardOf(WriterHash(wobj[w])))
                  THEN "write" ELSE "create_dir"]
    /\ UNCHANGED <<object_dirs, object_files, result, wobj, wres>>

\* fs::create_dir(&dir_path)?
WriterCreateDir(w) ==
    /\ wpc[w] = "create_dir"
    /\ LET made == fs_create_dir(FS, ShardOf(WriterHash(wobj[w])))
       IN /\ Commit(made.fs)
          /\ IF IsOk(made.out)
             THEN wpc' = [wpc EXCEPT ![w] = "write"] /\ UNCHANGED wres
             ELSE /\ wpc' = [wpc EXCEPT ![w] = "done"]
                  /\ wres' = [wres EXCEPT ![w] = made.out]
    /\ UNCHANGED <<result, wobj>>

\* fs::write(&object_path, ..)?; Ok(hash)
WriterWrite(w) ==
    /\ wpc[w] = "write"
    /\ LET hash_hex == WriterHash(wobj[w])
           written == fs_write(FS, ShardOf(hash_hex), FileOf(hash_hex), WriterData(wobj[w]))
       IN /\ Commit(written.fs)
          /\ wres' = [wres EXCEPT ![w] =
                         IF IsOk(written.out) THEN Ok(hash_hex) ELSE written.out]
    /\ wpc' = [wpc EXCEPT ![w] = "done"]
    /\ UNCHANGED <<result, wobj>>

NextConc ==
    \E w \in Writers :
        \/ WriterMetadata(w)
        \/ WriterCreateDir(w)
        \/ WriterWrite(w)

SpecConc == InitConc /\ [][NextConc]_vars

\* C8: when two writers concurrently write objects whose hashes share the first
\* 2 hex characters and the shard directory does not exist yet, then under every
\* interleaving of their steps both writes succeed and both objects are in the
\* store afterwards.
C8_BothWritersSucceed ==
    (/\ \A w \in Writers : wpc[w] = "done"
     /\ \A v, w \in Writers :
            ShardOf(WriterHash(wobj[v])) = ShardOf(WriterHash(wobj[w])))
        => \A w \in Writers :
              /\ IsOk(wres[w])
              /\ WriterHash(wobj[w]) \in StoredHashes

====
